---- MODULE Spec2Model ----
(***************************************************************************)
(* A model of the App component of CodeDiff (src/unnamed/part_000) and of  *)
(* the scroll wiring of EditorPanel (src/components/EditorPanel.tsx).      *)
(*                                                                         *)
(* React state is modelled the way the component uses it: the variables    *)
(* hold the values of the last committed render (what every handler        *)
(* closure reads), `pending` holds the queued setState calls in call       *)
(* order, and Flush is the re-render that applies the queue and then runs  *)
(* the effects whose dependencies changed.  Refs (panelScrollRefs,         *)
(* isSyncingScroll, syncIndicatorTimer) are plain mutable cells that are   *)
(* written at once.                                                        *)
(*                                                                         *)
(* Strings are sequences of one-character strings; offsets are 0-based as  *)
(* in JavaScript (the character at offset p is text[p + 1]).               *)
(***************************************************************************)
EXTENDS Integers, Sequences, FiniteSets, TLC

(***************************************************************************)
(* Bounds of the model.                                                    *)
(***************************************************************************)
\* longest document text an operation may produce
MaxLen == 2
\* most setState calls queued between two renders
MaxPending == 2
\* largest scrollTop / scrollLeft a viewport takes
MaxScroll == 1
\* the lines of a text typed for the diff
MaxLines == 3
\* the summarization calls in flight
MaxCalls == 2

(***************************************************************************)
(* Program constants.                                                      *)
(***************************************************************************)
\* useState(-1): the "no active match" sentinel
NoMatch == -1
\* addPanel: panels.length < 4
MaxPanels == 4
\* removePanel: panels.length > 2
MinPanels == 2

\* JavaScript's NaN, the value of x % 0; it is no integer the program uses
\* otherwise and it differs from every index and from the sentinel.
NaN == -1000

(***************************************************************************)
(* Strings.                                                                *)
(***************************************************************************)
Substring(s, from, to) ==
    \* String.prototype.substring(from, to), 0 <= from <= to <= length
    [i \in 1..(to - from) |-> s[from + i]]

\* case folding of the 'i' flag over the model's alphabet
Lower(c) == IF c = "A" THEN "a" ELSE IF c = "B" THEN "b" ELSE c

\* the characters escapeRegExp protects: . * + ? ^ $ { } ( ) | [ ] \
MetaChars ==
    {".", "*", "+", "?", "^", "$", "{", "}", "(", ")", "|", "[", "]", "\\"}

RECURSIVE escapeRegExp(_)
escapeRegExp(s) ==
    IF s = <<>> THEN <<>>
    ELSE (IF Head(s) \in MetaChars THEN <<"\\", Head(s)>> ELSE <<Head(s)>>)
         \o escapeRegExp(Tail(s))

(***************************************************************************)
(* new RegExp(pattern, flags) over the pattern syntax the model's queries  *)
(* use: literal characters, the dot, a postfix star, backslash-character   *)
(* (identity escape) and the opening parenthesis (it opens a group; no     *)
(* query of the model closes one, so it is a SyntaxError).  ok = FALSE     *)
(* stands for the SyntaxError the constructor throws.                      *)
(***************************************************************************)
RECURSIVE ParseAtoms(_, _, _)
ParseAtoms(p, i, acc) ==
    IF i > Len(p) THEN [ok |-> TRUE, atoms |-> acc]
    ELSE IF p[i] = "\\" THEN
        IF i = Len(p) THEN [ok |-> FALSE, atoms |-> <<>>]
        ELSE ParseAtoms(p, i + 2,
                 Append(acc, [kind |-> "lit", ch |-> p[i + 1], star |-> FALSE]))
    ELSE IF p[i] \in {"(", ")"} THEN [ok |-> FALSE, atoms |-> <<>>]
    ELSE IF p[i] = "*" THEN
        IF acc = <<>> \/ acc[Len(acc)].star THEN [ok |-> FALSE, atoms |-> <<>>]
        ELSE ParseAtoms(p, i + 1,
                 [acc EXCEPT ![Len(acc)] = [@ EXCEPT !.star = TRUE]])
    ELSE IF p[i] = "." THEN
        ParseAtoms(p, i + 1, Append(acc, [kind |-> "any", ch |-> ".", star |-> FALSE]))
    ELSE ParseAtoms(p, i + 1, Append(acc, [kind |-> "lit", ch |-> p[i], star |-> FALSE]))

NewRegExp(pattern, ignoreCase) ==
    LET parsed == ParseAtoms(pattern, 1, <<>>)
    IN  [ok |-> parsed.ok, atoms |-> parsed.atoms, ignoreCase |-> ignoreCase]

AtomMatches(atom, c, ignoreCase) ==
    IF atom.kind = "any" THEN c # "\n"
    ELSE IF ignoreCase THEN Lower(atom.ch) = Lower(c) ELSE atom.ch = c

\* how many characters from offset pos on match the atom
RECURSIVE RunLength(_, _, _, _)
RunLength(atom, ignoreCase, text, pos) ==
    IF pos < Len(text) /\ AtomMatches(atom, text[pos + 1], ignoreCase)
    THEN 1 + RunLength(atom, ignoreCase, text, pos + 1)
    ELSE 0

\* The backtracking matcher: the end offset of the first match of atoms[i..]
\* at offset pos in the engine's order (a starred atom is greedy), or -1.
RECURSIVE MatchFrom(_, _, _, _, _)
RECURSIVE TryStar(_, _, _, _, _, _)
MatchFrom(atoms, ignoreCase, text, i, pos) ==
    IF i > Len(atoms) THEN pos
    ELSE IF atoms[i].star THEN
        TryStar(atoms, ignoreCase, text, i, pos,
                RunLength(atoms[i], ignoreCase, text, pos))
    ELSE IF pos < Len(text) /\ AtomMatches(atoms[i], text[pos + 1], ignoreCase)
    THEN MatchFrom(atoms, ignoreCase, text, i + 1, pos + 1)
    ELSE -1

TryStar(atoms, ignoreCase, text, i, pos, n) ==
    LET r == MatchFrom(atoms, ignoreCase, text, i + 1, pos + n)
    IN  IF r # -1 THEN r
        ELSE IF n = 0 THEN -1
        ELSE TryStar(atoms, ignoreCase, text, i, pos, n - 1)

\* regex.exec with lastIndex = from: the leftmost match at or after from
RECURSIVE RegExpExec(_, _, _)
RegExpExec(regex, text, from) ==
    IF from > Len(text) THEN [found |-> FALSE, start |-> 0, end |-> 0]
    ELSE LET e == MatchFrom(regex.atoms, regex.ignoreCase, text, 1, from)
         IN  IF e # -1 THEN [found |-> TRUE, start |-> from, end |-> e]
             ELSE RegExpExec(regex, text, from + 1)

\* The matches a global regex yields over text, in scan order: after an empty
\* match the scan resumes one character further on.
RECURSIVE GlobalMatches(_, _, _)
GlobalMatches(regex, text, lastIndex) ==
    LET m == RegExpExec(regex, text, lastIndex)
    IN  IF ~m.found THEN <<>>
        ELSE <<[start |-> m.start, end |-> m.end]>>
             \o GlobalMatches(regex, text,
                              IF m.end = m.start THEN m.end + 1 ELSE m.end)

\* text.matchAll(regex)
matchAll(text, regex) == GlobalMatches(regex, text, 0)

\* GetSubstitution: the replacement string with its dollar patterns expanded:
\* dollar-dollar gives a dollar, dollar-ampersand the matched text.  The
\* patterns of the model have no capture groups, so a dollar followed by a digit
\* stays as written; the replacement strings of the model hold no backtick and
\* no quote, the two other characters a dollar combines with.
RECURSIVE GetSubstitution(_, _, _, _)
GetSubstitution(repl, text, start, end) ==
    IF repl = <<>> THEN <<>>
    ELSE IF Head(repl) = "$" /\ Len(repl) >= 2 /\ repl[2] \in {"$", "&"}
    THEN (IF repl[2] = "$" THEN <<"$">> ELSE Substring(text, start, end))
         \o GetSubstitution(Tail(Tail(repl)), text, start, end)
    ELSE <<Head(repl)>> \o GetSubstitution(Tail(repl), text, start, end)

\* text.replace(regex, repl) for a global regex
RECURSIVE ReplaceMatches(_, _, _, _, _)
ReplaceMatches(text, ms, k, from, repl) ==
    IF k > Len(ms) THEN Substring(text, from, Len(text))
    ELSE Substring(text, from, ms[k].start)
         \o GetSubstitution(repl, text, ms[k].start, ms[k].end)
         \o ReplaceMatches(text, ms, k + 1, ms[k].end, repl)

stringReplace(text, regex, repl) ==
    ReplaceMatches(text, matchAll(text, regex), 1, 0, repl)

(***************************************************************************)
(* JavaScript numbers.                                                     *)
(***************************************************************************)
JsAdd(a, b) == IF a = NaN \/ b = NaN THEN NaN ELSE a + b

\* a % b: NaN when b is 0, else the remainder with the sign of the dividend
JsMod(a, b) ==
    IF a = NaN \/ b = NaN \/ b = 0 THEN NaN
    ELSE IF a >= 0 THEN a % b ELSE -((-a) % b)

(***************************************************************************)
(* Input pools: the values the user types.                                 *)
(***************************************************************************)
TextPool == { <<"A">> }
QueryPool == { <<>>, <<"a">>, <<"(">>, <<"a", "*">> }
ReplacePool == { <<>>, <<"A">> }
InitialText1 == <<"a", "A">>
InitialText2 == <<"(", "a">>
\* the strings over an alphabet, up to a length
Strings(alphabet, n) == UNION { [1..k -> alphabet] : k \in 0..n }
\* the inputs of the replace engine: documents, and replacements with and
\* without the patterns that String.prototype.replace expands
ReplaceTextPool == Strings({"a", "A"}, MaxLen)
ReplacementPool == { <<>>, <<"A">>, <<"$", "$">>, <<"$", "&">> }

(***************************************************************************)
(* The state.                                                              *)
(***************************************************************************)
VARIABLES
    \* React state of App, as of the last committed render
    panels,             \* useState(initialPanels): sequence of [id, text, title]
    findQuery,          \* useState('')
    replaceQuery,       \* useState('')
    findOptions,        \* useState({caseSensitive: false, useRegex: false})
    isFindVisible,      \* useState(false)
    matches,            \* useState([]): sequence of [panelId, start, end]
    activeMatchIndex,   \* useState(-1)
    diffResults,        \* useState([]): per panel, null or its diff against the base
    isSummarizing,      \* useState(false)
    summary,            \* useState('')
    syncingPanelIds,    \* useState([]): the ids that show the synced indicator
    \* the setState calls made since that render, in call order
    pending,
    \* refs of App
    panelScrollRefs,    \* useRef([]): per index, the id of the mounted viewport or 0 (null)
    isSyncingScroll,    \* useRef(false): the re-entrancy guard
    syncIndicatorTimer, \* useRef(null): the handle of the last timer started, 0 for null
    \* the host
    scroll,             \* mounted viewport id -> [top, left]
    scrollEvents,       \* the viewports with a scroll event not yet dispatched
    rafCallbacks,       \* the number of requestAnimationFrame callbacks not yet run
    timers,             \* the handles of the setTimeout timers not yet fired or cleared
    summaryCalls,       \* the number of summarizeDifferences promises not yet settled
    \* observation
    threw,              \* an exception escaped a handler
    lastCall,           \* the replace handler that ran last, "none" once anything else ran
    replaced,           \* the ids of the panels that the last handler call replaced
                        \* by a new object
    lastScroll          \* the last scroll call that passed the guard, while the
                        \* other viewports are as it left them (again: the same
                        \* call arrived once more); NoScroll otherwise

reactVars == <<panels, findQuery, replaceQuery, findOptions, isFindVisible,
               matches, activeMatchIndex, pending>>
scrollVars == <<syncingPanelIds, panelScrollRefs, isSyncingScroll,
                syncIndicatorTimer, scroll, scrollEvents, rafCallbacks, timers>>
summaryVars == <<isSummarizing, summary, summaryCalls>>
vars == <<reactVars, scrollVars, threw, lastCall, lastScroll, diffResults,
          replaced, summaryVars>>

NoScroll == [id |-> 0, top |-> 0, left |-> 0, again |-> FALSE]

PanelIds(ps) == { ps[i].id : i \in 1..Len(ps) }

\* panels.findIndex(p => p.id === id), 1-based; 0 stands for -1
FindIndex(ps, id) ==
    IF id \in PanelIds(ps)
    THEN CHOOSE i \in 1..Len(ps) :
             ps[i].id = id /\ \A j \in 1..(i - 1) : ps[j].id # id
    ELSE 0

(***************************************************************************)
(* Find Matches Effect (lines 65-96).                                      *)
(***************************************************************************)
\* lines 74-75 (and 211-212): the pattern both the effect and replaceAll compile
BuildRegExp(query, opts) ==
    NewRegExp(IF opts.useRegex THEN query ELSE escapeRegExp(query),
              ~opts.caseSensitive)

\* lines 78-86: the matches of one panel, in scan order
PanelMatches(panel, regex) ==
    LET ms == matchAll(panel.text, regex)
    IN  [k \in 1..Len(ms) |->
            [panelId |-> panel.id, start |-> ms[k].start, end |-> ms[k].end]]

\* (variant for the check of C8: the panels are visited last to first)
RECURSIVE AllMatchesReversed(_, _)
AllMatchesReversed(ps, regex) ==
    IF ps = <<>> THEN <<>>
    ELSE AllMatchesReversed(Tail(ps), regex) \o PanelMatches(Head(ps), regex)

\* line 77: panels.forEach, in collection order
RECURSIVE AllMatches(_, _)
AllMatches(ps, regex) ==
    IF ps = <<>> THEN <<>>
    ELSE PanelMatches(Head(ps), regex) \o AllMatches(Tail(ps), regex)

\* (variant for the check of C22: line 90 selects the last match)
FindMatchesEffectSelectsLast(ps, query, opts, visible) ==
    IF query = <<>> \/ ~visible
    THEN [matches |-> <<>>, active |-> NoMatch]
    ELSE LET regex == BuildRegExp(query, opts)
         IN  IF ~regex.ok
             THEN [matches |-> <<>>, active |-> NoMatch]
             ELSE LET allMatches == AllMatches(ps, regex)
                  IN  [matches |-> allMatches, active |-> Len(allMatches) - 1]

\* (variant for the check of C9: the early return of line 66 tests the widget
\* alone, so an empty query is compiled and scanned)
FindMatchesEffectAlwaysScans(ps, query, opts, visible) ==
    IF ~visible
    THEN [matches |-> <<>>, active |-> NoMatch]
    ELSE LET regex == BuildRegExp(query, opts)
         IN  IF ~regex.ok
             THEN [matches |-> <<>>, active |-> NoMatch]
             ELSE LET allMatches == AllMatches(ps, regex)
                  IN  [matches |-> allMatches,
                       active  |-> IF Len(allMatches) > 0 THEN 0 ELSE NoMatch]

\* what the effect passes to setMatches and setActiveMatchIndex
FindMatchesEffect(ps, query, opts, visible) ==
    IF query = <<>> \/ ~visible
    THEN [matches |-> <<>>, active |-> NoMatch]
    ELSE LET regex == BuildRegExp(query, opts)
         IN  IF ~regex.ok
             THEN \* catch (error): invalid regex
                  [matches |-> <<>>, active |-> NoMatch]
             ELSE LET allMatches == AllMatches(ps, regex)
                  IN  [matches |-> allMatches,
                       active  |-> IF Len(allMatches) > 0 THEN 0 ELSE NoMatch]

(***************************************************************************)
(* The queued setState calls and their application at the next render.     *)
(***************************************************************************)
\* line 192: prev => (prev + 1) % matches.length
NextIndex(prev, length) == JsMod(JsAdd(prev, 1), length)
\* (variant for the check of C16: matches.length is not added before the
\* remainder is taken)
PrevIndexNoWrap(prev, length) == JsMod(JsAdd(prev, -1), length)
\* line 193: prev => (prev - 1 + matches.length) % matches.length
PrevIndex(prev, length) == JsMod(JsAdd(JsAdd(prev, -1), length), length)

\* lines 144 and 219: prev.map(p => <has an update> ? {...p, text} : p)
MapTexts(ps, updates) ==
    [i \in 1..Len(ps) |->
        IF ps[i].id \in DOMAIN updates
        THEN [ps[i] EXCEPT !.text = updates[ps[i].id]]
        ELSE ps[i]]

\* line 148
MapTitle(ps, id, title) ==
    [i \in 1..Len(ps) |->
        IF ps[i].id = id THEN [ps[i] EXCEPT !.title = title] ELSE ps[i]]

\* line 138: prev.slice(0, -1)
SliceLast(s) == IF s = <<>> THEN <<>> ELSE SubSeq(s, 1, Len(s) - 1)

\* One queued call applied to the state st.  st.fresh names the state whose
\* value is a new object after the call (an effect compares by identity).
ApplyUpdate(st, u) ==
    CASE u.op = "appendPanel" ->
            [st EXCEPT !.panels = Append(@, u.panel), !.fresh = @ \cup {"panels"}]
      [] u.op = "slicePanels" ->
            [st EXCEPT !.panels = SliceLast(@), !.fresh = @ \cup {"panels"}]
      [] u.op = "mapTexts" ->
            [st EXCEPT !.panels = MapTexts(@, u.updates), !.fresh = @ \cup {"panels"},
                       !.replaced = @ \cup (DOMAIN u.updates \cap PanelIds(st.panels))]
      [] u.op = "mapTitle" ->
            [st EXCEPT !.panels = MapTitle(@, u.id, u.title), !.fresh = @ \cup {"panels"},
                       !.replaced = @ \cup ({u.id} \cap PanelIds(st.panels))]
      [] u.op = "setFindQuery" -> [st EXCEPT !.findQuery = u.value]
      [] u.op = "setReplaceQuery" -> [st EXCEPT !.replaceQuery = u.value]
      [] u.op = "setFindOptions" ->
            [st EXCEPT !.findOptions = u.value, !.fresh = @ \cup {"findOptions"}]
      [] u.op = "toggleFind" -> [st EXCEPT !.isFindVisible = ~@]
      [] u.op = "setFindVisible" -> [st EXCEPT !.isFindVisible = u.value]
      [] u.op = "findNext" ->
            [st EXCEPT !.activeMatchIndex = NextIndex(@, u.length)]
      [] u.op = "findPrev" ->
            [st EXCEPT !.activeMatchIndex = PrevIndex(@, u.length)]

RECURSIVE ApplyUpdates(_, _)
ApplyUpdates(st, queue) ==
    IF queue = <<>> THEN st
    ELSE ApplyUpdates(ApplyUpdate(st, Head(queue)), Tail(queue))

Committed ==
    [panels |-> panels, findQuery |-> findQuery, replaceQuery |-> replaceQuery,
     findOptions |-> findOptions, isFindVisible |-> isFindVisible,
     activeMatchIndex |-> activeMatchIndex, fresh |-> {}, replaced |-> {}]

\* (variant for the check of C19: panels is missing from the dependency list)
FindDepsChangedWithoutPanels(st) ==
    \/ st.findQuery # findQuery
    \/ st.isFindVisible # isFindVisible
    \/ "findOptions" \in st.fresh

\* the dependency list of the Find Matches Effect, line 96
FindDepsChanged(st) ==
    \/ st.findQuery # findQuery
    \/ st.isFindVisible # isFindVisible
    \/ "panels" \in st.fresh
    \/ "findOptions" \in st.fresh

Max(a, b) == IF a >= b THEN a ELSE b

\* line 295, scrollRef={el => panelScrollRefs.current[index] = el}: the callback
\* is a new function at every render, so a commit calls the old callback of
\* every panel that was rendered with null and the new one of every panel that
\* is rendered with its element.
CommitRefs(refs, oldPs, newPs) ==
    [i \in 1..Max(Len(refs), Max(Len(oldPs), Len(newPs))) |->
        IF i <= Len(newPs) THEN newPs[i].id
        ELSE IF i <= Len(oldPs) THEN 0
        ELSE refs[i]]

\* The viewports are keyed by panel id (line 287): a kept panel keeps its
\* element and scroll offset, a new one mounts at the origin.
CommitScroll(newPs) ==
    [id \in PanelIds(newPs) |->
        IF id \in DOMAIN scroll THEN scroll[id] ELSE [top |-> 0, left |-> 0]]

(***************************************************************************)
(* Diff Calculation Effect (lines 51-62).  calculateDiff (utils/diff) is   *)
(* the LCS diff of the two texts split into lines.                         *)
(***************************************************************************)
NewLine == "\n"

\* text.split(NewLine): line is the line read so far
RECURSIVE SplitLines(_, _)
SplitLines(text, line) ==
    IF text = <<>> THEN <<line>>
    ELSE IF Head(text) = NewLine
    THEN <<line>> \o SplitLines(Tail(text), <<>>)
    ELSE SplitLines(Tail(text), Append(line, Head(text)))

Lines(text) == SplitLines(text, <<>>)

\* the cell (i, j) of the LCS table: the length of the LCS of B[1..i] and V[1..j]
RECURSIVE LcsLength(_, _, _, _)
LcsLength(B, V, i, j) ==
    IF i = 0 \/ j = 0 THEN 0
    ELSE IF B[i] = V[j] THEN LcsLength(B, V, i - 1, j - 1) + 1
    ELSE Max(LcsLength(B, V, i - 1, j), LcsLength(B, V, i, j - 1))

\* the backtrace from the cell (i, j), in emission order; going backwards an
\* insertion is taken before a deletion, so that a block of changed lines
\* has its Removed lines before its Added lines
RECURSIVE Backtrace(_, _, _, _)
Backtrace(B, V, i, j) ==
    IF i > 0 /\ j > 0 /\ B[i] = V[j]
    THEN Append(Backtrace(B, V, i - 1, j - 1), [type |-> "Unchanged", text |-> B[i]])
    ELSE IF j > 0 /\ (i = 0 \/ LcsLength(B, V, i, j - 1) >= LcsLength(B, V, i - 1, j))
    THEN Append(Backtrace(B, V, i, j - 1), [type |-> "Added", text |-> V[j]])
    ELSE IF i > 0
    THEN Append(Backtrace(B, V, i - 1, j), [type |-> "Removed", text |-> B[i]])
    ELSE <<>>

computeDiff(B, V) == Backtrace(B, V, Len(B), Len(V))

\* line 59
calculateDiff(baseText, text) == computeDiff(Lines(baseText), Lines(text))

\* an entry of diffResults: null, or the lines of a diff
Null == [null |-> TRUE, lines |-> <<>>]
DiffOf(lines) == [null |-> FALSE, lines |-> lines]

\* (variant for the check of C20: a panel is diffed against the panel before it)
DiffCalculationEffectAgainstPrevious(ps) ==
    IF Len(ps) < 2
    THEN [i \in 1..Len(ps) |-> Null]
    ELSE LET newDiffs == [index \in 1..Len(ps) |->
                            IF index = 1 THEN Null
                            ELSE DiffOf(calculateDiff(ps[index - 1].text,
                                                      ps[index].text))]
         IN  <<Null>> \o Tail(newDiffs)

\* (variant for the check of C14: the arguments of calculateDiff are swapped)
DiffCalculationEffectSwapped(ps) ==
    IF Len(ps) < 2
    THEN [i \in 1..Len(ps) |-> Null]
    ELSE LET baseText == ps[1].text
             newDiffs == [index \in 1..Len(ps) |->
                            IF index = 1 THEN Null
                            ELSE DiffOf(calculateDiff(ps[index].text, baseText))]
         IN  <<Null>> \o Tail(newDiffs)

\* lines 52-61: what the effect passes to setDiffResults
DiffCalculationEffect(ps) ==
    IF Len(ps) < 2
    THEN [i \in 1..Len(ps) |-> Null]
    ELSE LET baseText == ps[1].text
             newDiffs == [index \in 1..Len(ps) |->
                            IF index = 1 THEN Null
                            ELSE DiffOf(calculateDiff(baseText, ps[index].text))]
         IN  <<Null>> \o Tail(newDiffs)

\* A render of App with the calls of queue applied in order: the Find Matches
\* Effect runs when one of its dependencies changed, and its two setState calls
\* are applied by the render that follows at once.
Commit(queue, refs) ==
    LET st  == ApplyUpdates(Committed, queue)
        eff == FindMatchesEffect(st.panels, st.findQuery, st.findOptions,
                                 st.isFindVisible)
    IN  /\ panels' = st.panels
        /\ findQuery' = st.findQuery
        /\ replaceQuery' = st.replaceQuery
        /\ findOptions' = st.findOptions
        /\ isFindVisible' = st.isFindVisible
        /\ matches' = IF FindDepsChanged(st) THEN eff.matches ELSE matches
        /\ activeMatchIndex' =
               IF FindDepsChanged(st) THEN eff.active ELSE st.activeMatchIndex
        /\ panelScrollRefs' = CommitRefs(refs, panels, st.panels)
        /\ scroll' = CommitScroll(st.panels)
        /\ scrollEvents' = scrollEvents \cap PanelIds(st.panels)
        /\ lastScroll' =
               IF panelScrollRefs' = panelScrollRefs /\ DOMAIN scroll' = DOMAIN scroll
               THEN lastScroll ELSE NoScroll
        /\ diffResults' =
               IF "panels" \in st.fresh THEN DiffCalculationEffect(st.panels)
               ELSE diffResults
        /\ replaced' = st.replaced
        /\ pending' = <<>>
        /\ UNCHANGED <<syncingPanelIds, isSyncingScroll, syncIndicatorTimer,
                       rafCallbacks, timers, summaryVars>>

\* the render React schedules for queued calls
Render ==
    /\ pending # <<>>
    /\ Commit(pending, panelScrollRefs)
    /\ lastCall' = "none"
    /\ UNCHANGED threw

(***************************************************************************)
(* The handlers of App.  Each reads the committed state (its closure) and  *)
(* makes its setState calls.  addPanel and removePanel leave their call    *)
(* queued for a later Render, so that requests and renders interleave in   *)
(* every way.  The handlers of the find widget and of a textarea are taken *)
(* with the render that React runs for them before it dispatches the next  *)
(* event; a handler of the find widget can run only while the widget is    *)
(* rendered (line 266).                                                    *)
(***************************************************************************)
CanEnqueue == Len(pending) < MaxPending

Observed(name) ==
    IF name \in {"handleReplace", "handleReplaceAll"} THEN name ELSE "none"

\* a handler that returns without a setState call
Returns(name) ==
    /\ lastCall' = Observed(name)
    /\ replaced' = {}
    /\ UNCHANGED <<reactVars, scrollVars, threw, lastScroll, diffResults, summaryVars>>

\* a handler whose only effect is one setState call, and the render for it
Enqueues(name, u) ==
    /\ Commit(Append(pending, u), panelScrollRefs)
    /\ lastCall' = Observed(name)
    /\ UNCHANGED threw

\* a handler an exception escapes from before any setState call
Throws(name) ==
    /\ threw' = TRUE
    /\ lastCall' = Observed(name)
    /\ replaced' = {}
    /\ UNCHANGED <<reactVars, scrollVars, lastScroll, diffResults, summaryVars>>

\* The setState call of addPanel or removePanel, left queued for a later
\* Render.  refs is panelScrollRefs.current as the handler leaves it.
Requests(u, refs) ==
    /\ CanEnqueue
    /\ pending' = Append(pending, u)
    /\ panelScrollRefs' = refs
    /\ lastScroll' = IF refs = panelScrollRefs THEN lastScroll ELSE NoScroll
    /\ lastCall' = "none"
    /\ UNCHANGED <<panels, findQuery, replaceQuery, findOptions, isFindVisible,
                   matches, activeMatchIndex, syncingPanelIds, isSyncingScroll,
                   syncIndicatorTimer, scroll, scrollEvents, rafCallbacks, timers,
                   threw, diffResults, replaced, summaryVars>>

\* crypto.randomUUID(): an id that names nothing the state still holds.  Ids
\* are numbered; a number is used again only when no panel, queued call,
\* viewport or indicator carries it.
IdsInUse ==
    PanelIds(panels) \cup DOMAIN scroll \cup syncingPanelIds \cup {lastScroll.id}
    \cup { pending[k].panel.id :
             k \in { j \in 1..Len(pending) : pending[j].op = "appendPanel" } }

randomUUID ==
    CHOOSE id \in 1..(Cardinality(IdsInUse) + 1) :
        id \notin IdsInUse /\ \A j \in 1..(id - 1) : j \in IdsInUse

\* lines 127-131
NewPanel(id, count) ==
    [id |-> id, text |-> <<>>, title |-> "Comparison " \o ToString(count)]

\* line 126
CanAddPanel(count) == count < MaxPanels

\* line 137
CanRemovePanel(count) == count > MinPanels

\* lines 125-134
addPanel ==
    IF CanAddPanel(Len(panels))
    THEN Requests([op |-> "appendPanel", panel |-> NewPanel(randomUUID, Len(panels))],
                  panelScrollRefs)
    ELSE Returns("addPanel")

\* lines 136-141
removePanel ==
    IF CanRemovePanel(Len(panels))
    THEN Requests([op |-> "slicePanels"], SliceLast(panelScrollRefs))
    ELSE Returns("removePanel")

\* lines 143-145, called from the textarea of a rendered panel (line 293)
updatePanelText(id, newText) ==
    Enqueues("updatePanelText", [op |-> "mapTexts", updates |-> (id :> newText)])

onTextChange ==
    \E i \in 1..Len(panels), newText \in TextPool :
        updatePanelText(panels[i].id, newText)

\* the empty text and the texts of one to MaxLines lines of one character
LinePool == { <<"a">>, <<"b">> }
RECURSIVE JoinLines(_)
JoinLines(ls) ==
    IF Len(ls) = 1 THEN Head(ls)
    ELSE Head(ls) \o <<NewLine>> \o JoinLines(Tail(ls))
DiffTextPool ==
    { <<>> } \cup
    { JoinLines(ls) : ls \in UNION { [1..k -> LinePool] : k \in 1..MaxLines } }

\* line 293, with a text of several lines
onTextChangeLines ==
    \E i \in 1..Len(panels), newText \in DiffTextPool :
        updatePanelText(panels[i].id, newText)

\* line 263
onToggleFind == Enqueues("onToggleFind", [op |-> "toggleFind"])

\* line 280
onClose ==
    /\ isFindVisible
    /\ Enqueues("onClose", [op |-> "setFindVisible", value |-> FALSE])

\* line 269
onFindQueryChange ==
    /\ isFindVisible
    /\ \E q \in QueryPool :
           Enqueues("onFindQueryChange", [op |-> "setFindQuery", value |-> q])

\* line 271
onReplaceQueryChange ==
    /\ isFindVisible
    /\ \E r \in ReplacePool :
           Enqueues("onReplaceQueryChange", [op |-> "setReplaceQuery", value |-> r])

\* line 273: the widget passes a new options object
onOptionsChange ==
    /\ isFindVisible
    /\ \E cs \in BOOLEAN, re \in BOOLEAN :
           Enqueues("onOptionsChange",
                    [op |-> "setFindOptions",
                     value |-> [caseSensitive |-> cs, useRegex |-> re]])

\* line 192
handleFindNext ==
    /\ isFindVisible
    /\ Enqueues("handleFindNext", [op |-> "findNext", length |-> Len(matches)])

\* line 193
handleFindPrev ==
    /\ isFindVisible
    /\ Enqueues("handleFindPrev", [op |-> "findPrev", length |-> Len(matches)])

Min(a, b) == IF a <= b THEN a ELSE b

\* (variant for the check of C13: the suffix is taken from match.start)
SpliceTextAtStart(text, start, end, replacement) ==
    Substring(text, 0, Min(start, Len(text)))
    \o replacement
    \o Substring(text, Min(start, Len(text)), Len(text))

\* line 201: substring clamps its arguments to the length of the string
SpliceText(text, start, end, replacement) ==
    Substring(text, 0, Min(start, Len(text)))
    \o replacement
    \o Substring(text, Min(end, Len(text)), Len(text))

\* lines 195-203
handleReplace ==
    /\ isFindVisible
    /\ IF activeMatchIndex = NoMatch \/ Len(matches) = 0
       THEN Returns("handleReplace")
       ELSE IF activeMatchIndex \notin 0..(Len(matches) - 1)
       THEN \* matches[activeMatchIndex] is undefined: match.panelId throws
            Throws("handleReplace")
       ELSE LET match == matches[activeMatchIndex + 1]
                index == FindIndex(panels, match.panelId)
            IN  IF index = 0 THEN Returns("handleReplace")
                ELSE LET newText == SpliceText(panels[index].text, match.start,
                                               match.end, replaceQuery)
                     IN  /\ Len(newText) <= MaxLen
                         /\ Enqueues("handleReplace",
                                [op |-> "mapTexts",
                                 updates |-> (panels[index].id :> newText)])

\* (variant for the check of C11: line 214 is missing, every panel gets an
\* entry in the map)
PanelUpdatesOfAll(ps, regex, replacement) ==
    [id \in PanelIds(ps) |->
        stringReplace(ps[FindIndex(ps, id)].text, regex, replacement)]

\* lines 210-217: the texts that the substitution changes, by panel id
PanelUpdates(ps, regex, replacement) ==
    LET changed == { i \in 1..Len(ps) :
                       stringReplace(ps[i].text, regex, replacement) # ps[i].text }
    IN  [id \in { ps[i].id : i \in changed } |->
            stringReplace(ps[FindIndex(ps, id)].text, regex, replacement)]

\* (variant for the check of C10: the early return tests the query alone)
ReplaceAllReturnsOnEmptyQuery(query, ms) == query = <<>>

\* line 206: the early return of handleReplaceAll
ReplaceAllReturnsEarly(query, ms) == query = <<>> \/ Len(ms) = 0

\* lines 205-220
handleReplaceAll ==
    /\ isFindVisible
    /\ IF ReplaceAllReturnsEarly(findQuery, matches)
       THEN Returns("handleReplaceAll")
       ELSE LET regex == BuildRegExp(findQuery, findOptions)
            IN  IF panels # <<>> /\ ~regex.ok
                THEN \* new RegExp throws inside panels.forEach
                     Throws("handleReplaceAll")
                ELSE LET panelUpdates == PanelUpdates(panels, regex, replaceQuery)
                     IN  /\ \A id \in DOMAIN panelUpdates :
                                Len(panelUpdates[id]) <= MaxLen
                         /\ Enqueues("handleReplaceAll",
                                [op |-> "mapTexts", updates |-> panelUpdates])

(***************************************************************************)
(* Summarization (lines 151-157).  summarizeDifferences                    *)
(* (services/geminiService) returns a promise; the handler is suspended at *)
(* the await of line 154 until the promise settles.                        *)
(***************************************************************************)
\* what a fulfilled promise yields
SummaryPool == { "text" }

\* lines 152-154, up to the await
handleSummarize ==
    /\ summaryCalls < MaxCalls
    /\ isSummarizing' = TRUE
    /\ summary' = ""
    /\ summaryCalls' = summaryCalls + 1
    /\ lastCall' = "none"
    /\ replaced' = {}
    /\ UNCHANGED <<reactVars, scrollVars, threw, lastScroll, diffResults>>

\* lines 154-156: the promise is fulfilled and the handler resumes
SummarizeResolves ==
    /\ summaryCalls > 0
    /\ \E result \in SummaryPool : summary' = result
    /\ isSummarizing' = FALSE
    /\ summaryCalls' = summaryCalls - 1
    /\ lastCall' = "none"
    /\ replaced' = {}
    /\ UNCHANGED <<reactVars, scrollVars, threw, lastScroll, diffResults>>

\* line 154: the promise is rejected; the await throws inside the async
\* handler, which has no try, so lines 155-156 do not run
SummarizeRejects ==
    /\ summaryCalls > 0
    /\ summaryCalls' = summaryCalls - 1
    /\ lastCall' = "none"
    /\ replaced' = {}
    /\ UNCHANGED <<reactVars, scrollVars, threw, lastScroll, diffResults,
                   isSummarizing, summary>>

(***************************************************************************)
(* Scroll synchronisation (lines 159-190).  A viewport is named by the id  *)
(* of its panel.  Writing a scroll offset that differs from the current    *)
(* one makes the host queue a scroll event for that viewport; the event is *)
(* dispatched later and reads the offset the viewport has by then          *)
(* (EditorPanel.tsx, lines 112-114).                                       *)
(***************************************************************************)
\* lines 170-171: the indexes the forEach writes
SyncTargets(refs, scrolledPanelIndex) ==
    { i \in 1..Len(refs) : refs[i] # 0 /\ i # scrolledPanelIndex }

\* (variant for the check of C6: the writes add the source's offsets to the
\* target's instead of assigning them)
WriteOffsetsAdded(sc, refs, targets, top, left) ==
    [id \in DOMAIN sc |->
        IF \E i \in targets : refs[i] = id
        THEN [top |-> sc[id].top + top, left |-> sc[id].left + left]
        ELSE sc[id]]

\* lines 172-173: the offsets after the writes
WriteOffsets(sc, refs, targets, top, left) ==
    [id \in DOMAIN sc |->
        IF \E i \in targets : refs[i] = id
        THEN [top |-> top, left |-> left]
        ELSE sc[id]]

\* line 174: idsToSync
IdsToSync(ps, targets) == { ps[i].id : i \in targets }

\* line 178: setSyncingPanelIds(idsToSync)
SyncedAfterScroll(synced, idsToSync) == idsToSync

\* window.setTimeout returns a handle that is in use nowhere
FreshTimer ==
    CHOOSE h \in 1..(Cardinality(timers) + 2) :
        /\ h \notin timers
        /\ h # syncIndicatorTimer
        /\ \A g \in 1..(h - 1) : g \in timers \/ g = syncIndicatorTimer

\* (variant for the check of C18: the pending timer is not cleared)
ClearPreviousNever(ts, handle) == ts

\* lines 180-182: clearTimeout of the handle the ref holds, when it holds one
ClearPrevious(ts, handle) == IF handle # 0 THEN ts \ {handle} ELSE ts

\* (variant for the check of C21: the guard is set after the early return, so
\* this branch requests the frame without setting it)
ScrollOfUnknownUnguarded ==
    /\ rafCallbacks' = rafCallbacks + 1
    /\ UNCHANGED <<isSyncingScroll, syncingPanelIds, panelScrollRefs,
                   syncIndicatorTimer, scroll, timers, threw>>

\* (variant for the check of C5: the branch returns without requesting the
\* frame that clears the guard)
ScrollOfUnknownNoFrame ==
    /\ isSyncingScroll' = TRUE
    /\ UNCHANGED <<syncingPanelIds, panelScrollRefs, syncIndicatorTimer, scroll,
                   rafCallbacks, timers, threw>>

\* lines 164-167: the branch taken when the id is not in panels
ScrollOfUnknown ==
    /\ isSyncingScroll' = TRUE
    /\ rafCallbacks' = rafCallbacks + 1
    /\ UNCHANGED <<syncingPanelIds, panelScrollRefs, syncIndicatorTimer, scroll,
                   timers, threw>>

\* lines 169-189; newEvents are the viewports whose offset the writes changed
ScrollOfPanel(scrolledPanelIndex, scrollTop, scrollLeft, newEvents) ==
    LET targets == SyncTargets(panelScrollRefs, scrolledPanelIndex)
    IN  IF \E i \in targets : i > Len(panels)
        THEN \* panels[index] is undefined: reading its id throws, after the
             \* guard was set and before anything was scheduled
             /\ isSyncingScroll' = TRUE
             /\ threw' = TRUE
             /\ newEvents = {}
             /\ UNCHANGED <<syncingPanelIds, panelScrollRefs, syncIndicatorTimer,
                            scroll, rafCallbacks, timers>>
        ELSE LET written == WriteOffsets(scroll, panelScrollRefs, targets,
                                         scrollTop, scrollLeft)
                 handle  == FreshTimer
             IN  /\ isSyncingScroll' = TRUE
                 /\ scroll' = written
                 /\ newEvents = { id \in DOMAIN scroll : written[id] # scroll[id] }
                 /\ syncingPanelIds' =
                        SyncedAfterScroll(syncingPanelIds, IdsToSync(panels, targets))
                 /\ timers' = ClearPrevious(timers, syncIndicatorTimer) \cup {handle}
                 /\ syncIndicatorTimer' = handle
                 /\ rafCallbacks' = rafCallbacks + 1
                 /\ UNCHANGED <<panelScrollRefs, threw>>

\* (variant for the check of C17: the test of line 160 is missing)
ScrollIsNeverIgnored == FALSE

\* line 160: the guard
ScrollIsIgnored == isSyncingScroll

\* lines 159-190.  The call consumes the scroll event of scrolledPanelId that
\* carried it.
handleScroll(scrolledPanelId, scrollTop, scrollLeft) ==
    /\ \E newEvents \in SUBSET DOMAIN scroll :
        /\ IF ScrollIsIgnored
           THEN newEvents = {} /\ UNCHANGED <<syncingPanelIds, panelScrollRefs,
                    isSyncingScroll, syncIndicatorTimer, scroll, rafCallbacks,
                    timers, threw>>
           ELSE IF FindIndex(panels, scrolledPanelId) = 0
           THEN newEvents = {} /\ ScrollOfUnknown
           ELSE ScrollOfPanel(FindIndex(panels, scrolledPanelId),
                              scrollTop, scrollLeft, newEvents)
        /\ scrollEvents' = (scrollEvents \ {scrolledPanelId}) \cup newEvents
    /\ LET same == /\ lastScroll.id = scrolledPanelId
                    /\ lastScroll.top = scrollTop
                    /\ lastScroll.left = scrollLeft
       IN  lastScroll' =
               IF ScrollIsIgnored
               THEN [lastScroll EXCEPT !.again = @ \/ same]
               ELSE [id |-> scrolledPanelId, top |-> scrollTop,
                     left |-> scrollLeft, again |-> same]
    /\ UNCHANGED <<reactVars, lastCall, diffResults, replaced, summaryVars>>

ScrollRange == 0..MaxScroll

\* The user (or the smooth scrollTo of lines 116-119) moves a viewport: its
\* offset changes and a scroll event is queued for it.
UserScroll ==
    \E id \in DOMAIN scroll, top \in ScrollRange, left \in ScrollRange :
        /\ scroll[id] # [top |-> top, left |-> left]
        /\ scroll' = [scroll EXCEPT ![id] = [top |-> top, left |-> left]]
        /\ scrollEvents' = scrollEvents \cup {id}
        /\ lastScroll' = IF id = lastScroll.id THEN lastScroll ELSE NoScroll
        /\ UNCHANGED <<reactVars, syncingPanelIds, panelScrollRefs, isSyncingScroll,
                       syncIndicatorTimer, rafCallbacks, timers, threw, lastCall,
                       diffResults, replaced, summaryVars>>

\* EditorPanel.tsx lines 112-114: a queued scroll event is dispatched to the
\* handler with the offsets the viewport has now
DispatchScroll ==
    \E id \in scrollEvents :
        handleScroll(id, scroll[id].top, scroll[id].left)

\* handleScroll called with an id that names no panel (the branch of line
\* 164), with any offsets
ScrollOfUnknownId ==
    \E top \in ScrollRange, left \in ScrollRange :
        handleScroll(randomUUID, top, left)

\* the callback of lines 165 and 187-189 runs at the next frame
AnimationFrame ==
    /\ rafCallbacks > 0
    /\ rafCallbacks' = rafCallbacks - 1
    /\ isSyncingScroll' = FALSE
    /\ UNCHANGED <<reactVars, syncingPanelIds, panelScrollRefs, syncIndicatorTimer,
                   scroll, scrollEvents, timers, threw, lastCall, lastScroll,
                   diffResults, replaced, summaryVars>>

\* the callback of lines 183-185 runs when its timer expires
TimerFires ==
    \E h \in timers :
        /\ timers' = timers \ {h}
        /\ syncingPanelIds' = {}
        /\ UNCHANGED <<reactVars, panelScrollRefs, isSyncingScroll,
                       syncIndicatorTimer, scroll, scrollEvents, rafCallbacks,
                       threw, lastCall, lastScroll, diffResults, replaced,
                       summaryVars>>

(***************************************************************************)
(* The initial state and the specifications.                               *)
(***************************************************************************)
initialPanels ==
    << [id |-> 1, text |-> InitialText1, title |-> "Original JavaScript"],
       [id |-> 2, text |-> InitialText2, title |-> "Refactored TypeScript"] >>

Init ==
    /\ panels = initialPanels
    /\ findQuery = <<>>
    /\ replaceQuery = <<>>
    /\ findOptions = [caseSensitive |-> FALSE, useRegex |-> FALSE]
    /\ isFindVisible = FALSE
    /\ matches = <<>>
    /\ activeMatchIndex = NoMatch
    /\ syncingPanelIds = {}
    /\ pending = <<>>
    /\ panelScrollRefs = <<1, 2>>
    /\ isSyncingScroll = FALSE
    /\ syncIndicatorTimer = 0
    /\ scroll = [id \in {1, 2} |-> [top |-> 0, left |-> 0]]
    /\ scrollEvents = {}
    /\ rafCallbacks = 0
    /\ timers = {}
    /\ threw = FALSE
    /\ lastCall = "none"
    /\ lastScroll = NoScroll
    /\ diffResults = DiffCalculationEffect(initialPanels)
    /\ replaced = {}
    /\ isSummarizing = FALSE
    /\ summary = ""
    /\ summaryCalls = 0

\* The find and replace widget over the two initial documents.
NextFind ==
    \/ onTextChange
    \/ onToggleFind
    \/ onClose
    \/ onFindQueryChange
    \/ onReplaceQueryChange
    \/ onOptionsChange
    \/ handleFindNext
    \/ handleFindPrev
    \/ handleReplace
    \/ handleReplaceAll

SpecFind == Init /\ [][NextFind]_vars

\* The replace engine over any two documents, query, options and replacement,
\* with the find widget open and the matches computed.
InitReplace ==
    /\ \E text1 \in ReplaceTextPool, text2 \in ReplaceTextPool :
           panels = << [initialPanels[1] EXCEPT !.text = text1],
                       [initialPanels[2] EXCEPT !.text = text2] >>
    /\ findQuery \in QueryPool
    /\ replaceQuery \in ReplacementPool
    /\ findOptions \in [caseSensitive : BOOLEAN, useRegex : BOOLEAN]
    /\ isFindVisible = TRUE
    /\ matches = FindMatchesEffect(panels, findQuery, findOptions, TRUE).matches
    /\ activeMatchIndex = FindMatchesEffect(panels, findQuery, findOptions, TRUE).active
    /\ diffResults = DiffCalculationEffect(panels)
    /\ syncingPanelIds = {}
    /\ pending = <<>>
    /\ panelScrollRefs = <<1, 2>>
    /\ isSyncingScroll = FALSE
    /\ syncIndicatorTimer = 0
    /\ scroll = [id \in {1, 2} |-> [top |-> 0, left |-> 0]]
    /\ scrollEvents = {}
    /\ rafCallbacks = 0
    /\ timers = {}
    /\ threw = FALSE
    /\ lastCall = "none"
    /\ lastScroll = NoScroll
    /\ replaced = {}
    /\ isSummarizing = FALSE
    /\ summary = ""
    /\ summaryCalls = 0

NextReplace ==
    \/ handleFindNext
    \/ handleReplace
    \/ handleReplaceAll

SpecReplace == InitReplace /\ [][NextReplace]_vars

\* Moving to the next match, replacements, text edits and query changes over any two
\* documents: the steps after which the match list is recomputed.
NextRecompute ==
    \/ handleFindNext
    \/ handleReplace
    \/ handleReplaceAll
    \/ onTextChange
    \/ onFindQueryChange

SpecRecompute == InitReplace /\ [][NextRecompute]_vars

\* The diff of the second document against the base, for any two texts.
NextDiff == onTextChangeLines

SpecDiff == Init /\ [][NextDiff]_vars

\* The summary panel, while the documents are edited.
NextSummarize ==
    \/ handleSummarize
    \/ SummarizeResolves
    \/ SummarizeRejects
    \/ onTextChangeLines

SpecSummarize == Init /\ [][NextSummarize]_vars

\* The document collection: addPanel and removePanel requests in any
\* interleaving with the renders that apply them.
NextPanels ==
    \/ addPanel
    \/ removePanel
    \/ Render

SpecPanels == Init /\ [][NextPanels]_vars

\* The document collection with edits of the texts: every change of panels
\* that the Diff Calculation Effect follows.
NextCollection ==
    \/ addPanel
    \/ removePanel
    \/ Render
    \/ onTextChange

SpecCollection == Init /\ [][NextCollection]_vars

\* The scroll coordinator over the viewports of the two initial panels.
NextScroll ==
    \/ UserScroll
    \/ DispatchScroll
    \/ ScrollOfUnknownId
    \/ AnimationFrame
    \/ TimerFires

SpecScroll == Init /\ [][NextScroll]_vars

\* The host runs a requested animation frame callback eventually.
SpecScrollFair == SpecScroll /\ WF_vars(AnimationFrame)

\* The host also lets a pending timer expire eventually.
SpecScrollTimed == SpecScroll /\ WF_vars(AnimationFrame) /\ WF_vars(TimerFires)

(***************************************************************************)
(* The claims.                                                             *)
(***************************************************************************)
\* C1: in every reachable state activeMatchIndex is the sentinel -1 when the
\* match list is empty and an index i with 0 <= i < matches.length when it is
\* not.  (Violated: findNext over an empty list leaves NaN.)
C1_ActiveIndexInRange ==
    IF matches = <<>> THEN activeMatchIndex = NoMatch
    ELSE activeMatchIndex \in 0..(Len(matches) - 1)

\* C2: findNext and findPrev called while the match list is empty leave the
\* active match index at the sentinel -1.  (Violated: the index becomes NaN.)
C2_NavigationOnEmptyIsNoOp ==
    [][ (handleFindNext \/ handleFindPrev) /\ matches = <<>>
            => activeMatchIndex' = NoMatch ]_vars

\* C3: whatever the interleaving of addPanel and removePanel requests with the
\* renders that apply them, the collection has between 2 and 4 entries and its
\* first entry keeps the id of the base.  (Violated: two requests made from
\* the same render both pass the test on panels.length.)
C3_CollectionBounded ==
    /\ Len(panels) >= MinPanels
    /\ Len(panels) <= MaxPanels
    /\ panels[1].id = initialPanels[1].id

\* the step is the call of handleScroll for the scroll event of id, past the guard
AcceptedScroll(id) ==
    /\ id \in scrollEvents
    /\ ~isSyncingScroll
    /\ handleScroll(id, scroll[id].top, scroll[id].left)

\* C4: when a scroll event of a viewport passes the guard, on return every
\* other viewport has its offsets, the source was not written, every other
\* viewport is in the synced set, and the ids that were in the synced set
\* remain in it.  (Violated: the synced set is replaced, not added to.)
C4_ScrollWritesSiblingsAndAddsToSynced ==
    [][ \A id \in DOMAIN scroll :
            AcceptedScroll(id) =>
                /\ \A v \in DOMAIN scroll \ {id} : scroll'[v] = scroll[id]
                /\ scroll'[id] = scroll[id]
                /\ (DOMAIN scroll \ {id}) \subseteq syncingPanelIds'
                /\ syncingPanelIds \subseteq syncingPanelIds' ]_vars

\* C5: whenever the guard is set, also by a call with an id that names no
\* panel, it is clear again later, given that a requested frame runs.
C5_GuardEventuallyReleased == isSyncingScroll ~> ~isSyncingScroll

\* C5 witness: the guard is set by a call whose id names no panel
C5_Witness ==
    /\ isSyncingScroll
    /\ lastScroll.id # 0
    /\ lastScroll.id \notin PanelIds(panels)

\* C6: a scroll event that repeats the last accepted one (same source, same
\* offsets, the other viewports as that one left them) changes the offset of
\* no viewport, whether the guard is still set or was released.
C6_RepeatedScrollChangesNothing ==
    [][ \A id \in scrollEvents :
            /\ handleScroll(id, scroll[id].top, scroll[id].left)
            /\ lastScroll.id = id
            /\ lastScroll.top = scroll[id].top
            /\ lastScroll.left = scroll[id].left
            => scroll' = scroll ]_vars

\* C6 witness: the event of a viewport scrolled away from the origin was
\* handled a second time
C6_Witness ==
    /\ lastScroll.again
    /\ lastScroll.id \in DOMAIN scroll
    /\ lastScroll.top # 0 \/ lastScroll.left # 0

\* C7: once no scroll event is pending and the guard is released, all viewports
\* have the same offsets.  (Violated: the event of a viewport scrolled while
\* the guard is set is dropped.)
C7_Lockstep ==
    (scrollEvents = {} /\ ~isSyncingScroll)
        => \A a, b \in DOMAIN scroll : scroll[a] = scroll[b]

PanelText(id) == panels[FindIndex(panels, id)].text

\* C8: the match list is ordered by the position of the document in the
\* collection and then by start; the matches of one document do not overlap
\* and their starts increase strictly; every match lies within the text of its
\* document.
C8_MatchesOrdered ==
    /\ \A k \in 1..Len(matches) :
          /\ matches[k].panelId \in PanelIds(panels)
          /\ 0 <= matches[k].start
          /\ matches[k].start <= matches[k].end
          /\ matches[k].end <= Len(PanelText(matches[k].panelId))
    /\ \A j, k \in 1..Len(matches) :
          j < k =>
            \/ FindIndex(panels, matches[j].panelId)
                 < FindIndex(panels, matches[k].panelId)
            \/ /\ matches[j].panelId = matches[k].panelId
               /\ matches[j].start < matches[k].start
               /\ matches[j].end <= matches[k].start

\* C8 witness: matches in both documents, two of them in one document, one of
\* them empty
C8_Witness ==
    /\ \E j, k \in 1..Len(matches) : matches[j].panelId # matches[k].panelId
    /\ \E j, k \in 1..Len(matches) :
          j # k /\ matches[j].panelId = matches[k].panelId
    /\ \E k \in 1..Len(matches) : matches[k].start = matches[k].end

\* the inputs of the Find Matches Effect change in the step
FindInputsChange ==
    <<findQuery, findOptions, panels, isFindVisible>>'
        # <<findQuery, findOptions, panels, isFindVisible>>

PatternIsInvalid ==
    /\ findOptions.useRegex
    /\ findQuery # <<>>
    /\ ~BuildRegExp(findQuery, findOptions).ok

\* C10: with an invalid pattern no exception escapes: the recomputed match
\* list is empty with the sentinel index, and a replace or replaceAll called
\* with that pattern returns without throwing and changes no document.
C10_InvalidPatternIsAbsorbed ==
    [][ /\ (FindInputsChange /\ isFindVisible' /\ PatternIsInvalid')
            => matches' = <<>> /\ activeMatchIndex' = NoMatch
        /\ (PatternIsInvalid /\ (handleReplace \/ handleReplaceAll))
            => ~threw' /\ panels' = panels ]_vars

\* C10 witness: replaceAll was called with the invalid pattern
C10_Witness ==
    /\ isFindVisible
    /\ PatternIsInvalid
    /\ lastCall = "handleReplaceAll"
    /\ ~threw

\* C11: replaceAll replaces by a new entry exactly the documents whose text
\* the substitution changes; a document whose text it does not change stays
\* the same entry, and the number, order, ids and titles of the documents are
\* unchanged.
C11_ReplaceAllPreservesIdentity ==
    [][ handleReplaceAll =>
          /\ Len(panels') = Len(panels)
          /\ \A i \in 1..Len(panels) :
                /\ panels'[i].id = panels[i].id
                /\ panels'[i].title = panels[i].title
                /\ panels[i].id \in replaced' <=> panels'[i].text # panels[i].text
                /\ panels[i].id \notin replaced' => panels'[i] = panels[i] ]_vars

\* C11 witness: replaceAll replaced one document and kept the other
C11_Witness ==
    /\ lastCall = "handleReplaceAll"
    /\ replaced # {}
    /\ replaced # PanelIds(panels)

\* the matches of the list that belong to the panel id, in list order
RECURSIVE SpansOf(_, _)
SpansOf(ms, id) ==
    IF ms = <<>> THEN <<>>
    ELSE IF Head(ms).panelId = id THEN <<Head(ms)>> \o SpansOf(Tail(ms), id)
    ELSE SpansOf(Tail(ms), id)

\* text with the spans from the k-th on replaced by repl as it is written;
\* from is the end of the span before
RECURSIVE SpliceSpans(_, _, _, _, _)
SpliceSpans(text, spans, k, from, repl) ==
    IF k > Len(spans) THEN SubSeq(text, from + 1, Len(text))
    ELSE SubSeq(text, from + 1, spans[k].start)
         \o repl
         \o SpliceSpans(text, spans, k + 1, spans[k].end, repl)

\* C12: the text replaceAll produces for a document is its text with exactly
\* the spans of the match list for that document replaced by the replacement
\* string verbatim.  (Violated: String.prototype.replace expands the dollar
\* patterns of the replacement.)
C12_ReplaceAllAgreesWithMatches ==
    [][ handleReplaceAll =>
          \A i \in 1..Len(panels) :
              panels'[i].text =
                  SpliceSpans(panels[i].text, SpansOf(matches, panels[i].id),
                              1, 0, replaceQuery) ]_vars

\* C13: replaceOne gives the document of the active match the text before
\* match.start, the replacement and the text from match.end on; every other
\* text and every id, title and position is unchanged; without an active
\* match nothing changes.
C13_ReplaceOneSplices ==
    [][ handleReplace =>
          IF activeMatchIndex \notin 0..(Len(matches) - 1)
          THEN panels' = panels
          ELSE LET match == matches[activeMatchIndex + 1]
               IN  /\ Len(panels') = Len(panels)
                   /\ \A i \in 1..Len(panels) :
                        /\ panels'[i].id = panels[i].id
                        /\ panels'[i].title = panels[i].title
                        /\ panels'[i].text =
                             IF panels[i].id = match.panelId
                             THEN SubSeq(panels[i].text, 1, match.start)
                                  \o replaceQuery
                                  \o SubSeq(panels[i].text, match.end + 1,
                                            Len(panels[i].text))
                             ELSE panels[i].text ]_vars

\* C13 witness: replaceOne spliced a replacement into a document
C13_Witness ==
    /\ lastCall = "handleReplace"
    /\ replaced # {}
    /\ replaceQuery # <<>>
    /\ \E i \in 1..Len(panels) : panels[i].id \notin replaced /\ panels[i].text # <<>>

\* the texts of the lines of the given kinds, in order
RECURSIVE TextsOfKinds(_, _)
TextsOfKinds(lines, kinds) ==
    IF lines = <<>> THEN <<>>
    ELSE IF Head(lines).type \in kinds
    THEN <<Head(lines).text>> \o TextsOfKinds(Tail(lines), kinds)
    ELSE TextsOfKinds(Tail(lines), kinds)

\* C14: the Removed and Unchanged lines of the diff of a document against the
\* base, in order, are the lines of the base; its Added and Unchanged lines,
\* in order, are the lines of the document.
C14_DiffReconstructsBothTexts ==
    \A i \in 2..Len(panels) :
        /\ ~diffResults[i].null
        /\ TextsOfKinds(diffResults[i].lines, {"Removed", "Unchanged"})
               = Lines(panels[1].text)
        /\ TextsOfKinds(diffResults[i].lines, {"Added", "Unchanged"})
               = Lines(panels[i].text)

\* C14 witness: a diff with lines of all three kinds
C14_Witness ==
    /\ Len(diffResults) = 2
    /\ \A kind \in {"Removed", "Added", "Unchanged"} :
          \E k \in 1..Len(diffResults[2].lines) : diffResults[2].lines[k].type = kind
    /\ Len(Lines(panels[1].text)) = MaxLines

\* C20: after the recomputation that a change of the collection triggers,
\* diffResults has one entry per document, the entry of the base is null and
\* the entry of every other document is the diff of the current text of the
\* base and the current text of that document.
C20_DiffsAreAgainstBase ==
    /\ Len(diffResults) = Len(panels)
    /\ \A i \in 1..Len(panels) :
          diffResults[i] =
              IF i = 1 THEN Null
              ELSE DiffOf(calculateDiff(panels[1].text, panels[i].text))

\* C20 witness: three documents or more with three different texts, the base
\* edited
C20_Witness ==
    /\ Len(panels) >= 3
    /\ panels[1].text # InitialText1
    /\ panels[2].text # panels[1].text
    /\ panels[3].text # panels[2].text
    /\ panels[3].text # panels[1].text
    /\ Len(diffResults) = Len(panels)

\* C15: when a summarization call fails the panel returns to its
\* non-summarizing state: with no call in flight isSummarizing is false.
\* (Violated: a rejected promise leaves isSummarizing true.)
C15_FailureReturnsToIdle == summaryCalls = 0 => ~isSummarizing

\* C16: with a match list that is not empty and an active index within it,
\* findNext and findPrev give an index within the list, prev of the index
\* findNext gives is the index before, and next of the index findPrev gives
\* is the index before.
C16_NextAndPrevAreInverses ==
    [][ (Len(matches) > 0 /\ activeMatchIndex \in 0..(Len(matches) - 1)) =>
          /\ handleFindNext =>
                /\ activeMatchIndex' \in 0..(Len(matches) - 1)
                /\ PrevIndex(activeMatchIndex', Len(matches)) = activeMatchIndex
          /\ handleFindPrev =>
                /\ activeMatchIndex' \in 0..(Len(matches) - 1)
                /\ NextIndex(activeMatchIndex', Len(matches)) = activeMatchIndex
      ]_vars

\* C16 witness: the last of three matches or more is active
C16_Witness ==
    /\ Len(matches) >= 3
    /\ activeMatchIndex = Len(matches) - 1

\* C17: a call of handleScroll that arrives while the guard is set writes no
\* viewport offset, leaves the synced set, the pending timer and the timer
\* handle as they are, and requests no frame.
C17_GuardedScrollIsIgnored ==
    [][ (isSyncingScroll /\ (DispatchScroll \/ ScrollOfUnknownId)) =>
            UNCHANGED <<scroll, syncingPanelIds, timers, syncIndicatorTimer,
                        rafCallbacks, isSyncingScroll>> ]_vars

\* C17 witness: the guard is set, the event of a viewport that the user moved
\* was dispatched, and the viewports differ
C17_Witness ==
    /\ isSyncingScroll
    /\ scrollEvents = {}
    /\ \E a, b \in DOMAIN scroll : scroll[a] # scroll[b]

\* C18: at most one indicator timer is pending, and it is the one the last
\* accepted scroll started; an accepted scroll leaves only its own new timer
\* pending; the synced set is emptied only by the firing of that timer; a
\* synced set that is not empty is emptied eventually.
C18_OneIndicatorTimer ==
    /\ [](Cardinality(timers) <= 1 /\ timers \subseteq {syncIndicatorTimer})
    /\ [][ \A id \in DOMAIN scroll :
              AcceptedScroll(id) =>
                  /\ syncIndicatorTimer' \notin timers
                  /\ timers' = {syncIndicatorTimer'} ]_vars
    /\ [][ (syncingPanelIds # {} /\ syncingPanelIds' = {}) =>
              /\ timers = {syncIndicatorTimer}
              /\ timers' = {}
              /\ TimerFires ]_vars
    /\ (syncingPanelIds # {}) ~> (syncingPanelIds = {})

\* C18 witness: the second timer started is pending for the scroll of the
\* second viewport
C18_Witness ==
    /\ timers = {syncIndicatorTimer}
    /\ syncIndicatorTimer = 2
    /\ lastScroll.id = 2
    /\ syncingPanelIds = {1}

C21_GuardIffOneReleasePending ==
    /\ [](isSyncingScroll <=> rafCallbacks = 1)
    /\ [](rafCallbacks <= 1)
    /\ [][AnimationFrame => isSyncingScroll]_vars

\* C21 witness: the guard is set for the second accepted scroll, after the
\* release of the first one ran
C21_Witness ==
    /\ isSyncingScroll
    /\ rafCallbacks = 1
    /\ syncIndicatorTimer = 2
    /\ lastScroll.id \in DOMAIN scroll

\* C22: a step that recomputes the match list (an input of the effect
\* changes, or a text is set by an edit or a replace) leaves the active index
\* at 0 when the new list is not empty and at -1 when it is empty, whatever
\* the index was before.
C22_RecomputationResetsTheIndex ==
    [][ (FindInputsChange \/ replaced' # {}) =>
            activeMatchIndex' = IF matches' # <<>> THEN 0 ELSE NoMatch ]_vars

\* C22 witness: after a replaceOne the first of two matches or more is active
C22_Witness ==
    /\ lastCall = "handleReplace"
    /\ replaced # {}
    /\ Len(matches) >= 2
    /\ activeMatchIndex = 0

====
